---- MODULE Spec2Model ----
(***************************************************************************)
(* A model of the exam scheduler of ezlaptop (scheduler.py).               *)
(*                                                                         *)
(* run_local_poc reads a slot catalog (slots_data.json) and a rule set     *)
(* (constraints.json), filters the catalog by deadline and required exam,  *)
(* builds a CP-SAT model, hands it to the solver and prints the result.    *)
(* The run is modelled as four steps: Filter, Build, Solve, Report.        *)
(* The CP-SAT solver is an external library: Solve chooses                 *)
(* nondeterministically among the answers its contract allows.             *)
(***************************************************************************)
EXTENDS Integers, Sequences, FiniteSets

VARIABLES
    slots_data,             \* the catalog, as loaded from slots_data.json
    rules_data,             \* the rule set, as loaded from constraints.json
    required_exams,         \* the patient's exam list (a list of names)
    next_appointment_date,  \* the parsed next-appointment date string
    pc,                     \* position of run_local_poc
    all_slots,              \* valid_slots / all_slots, the filtered catalog
    exam_slots_map,         \* exam -> list of its candidate slots
    model,                  \* the CP-SAT model: variables, constraints, day links
    status,                 \* the solver's status ("NONE" before Solve)
    values,                 \* the solver's assignment of the choice variables
    output,                 \* the message the run prints
    result_schedule         \* the itinerary printed on success

vars == <<slots_data, rules_data, required_exams, next_appointment_date, pc,
          all_slots, exam_slots_map, model, status, values, output,
          result_schedule>>

inputs == <<slots_data, rules_data, required_exams, next_appointment_date>>

----------------------------------------------------------------------------
(* Bounds of the model                                                     *)

\* the longest catalog
MaxSlots == 3

----------------------------------------------------------------------------
(* General helpers                                                         *)

Range(s) == {s[i] : i \in DOMAIN s}

Min(S) == CHOOSE x \in S : \A y \in S : x <= y

\* lexicographic order on tuples of integers of one length (Python's order
\* on zero-padded strings of one format, and on tuples)
RECURSIVE LexLess(_, _)
LexLess(a, b) ==
    IF a = <<>> \/ b = <<>> THEN FALSE
    ELSE IF Head(a) # Head(b) THEN Head(a) < Head(b)
    ELSE LexLess(Tail(a), Tail(b))

\* the lists of n distinct elements of S
RECURSIVE DistinctSeqs(_, _)
DistinctSeqs(S, n) ==
    IF n = 0 THEN {<<>>}
    ELSE {Append(q, x) : q \in DistinctSeqs(S, n - 1), x \in S} \
         UNION {{Append(q, x) : x \in Range(q)} : q \in DistinctSeqs(S, n - 1)}

\* the tuples of the finite set S as a list in increasing order
RECURSIVE SortedSeq(_)
SortedSeq(S) ==
    IF S = {} THEN <<>>
    ELSE LET m == CHOOSE x \in S : \A y \in S : y = x \/ LexLess(x, y)
         IN  <<m>> \o SortedSeq(S \ {m})

----------------------------------------------------------------------------
(* Dates.  A date string 'YYYY-MM-DD' is the tuple <<y, m, d>>; equality   *)
(* of strings is equality of tuples.  datetime.strptime(..).date() turns   *)
(* it into a date, which compares and subtracts as its day number.         *)

IsLeap(y) == (y % 4 = 0 /\ y % 100 # 0) \/ y % 400 = 0

DaysBeforeMonth(y, m) ==
    <<0, 31, 59, 90, 120, 151, 181, 212, 243, 273, 304, 334>>[m]
        + (IF m > 2 /\ IsLeap(y) THEN 1 ELSE 0)

\* datetime.strptime(s, '%Y-%m-%d').date(), as the proleptic day number
strptime_date(s) ==
    LET y == s[1] - 1
    IN  y * 365 + (y \div 4) - (y \div 100) + (y \div 400)
          + DaysBeforeMonth(s[1], s[2]) + s[3]

\* minutes -> 'HH:MM', as the pair <<hours, mins>> of its two fields
minutes_to_time_str(minutes) == <<minutes \div 60, minutes % 60>>

----------------------------------------------------------------------------
(* The inputs: catalogs, rule sets, requests                               *)

ExamNames == {"Exam_A_CT", "Exam_B_MRI", "Exam_C_Endoscopy"}

\* the order of the exam names as strings
ExamRank(e) ==
    CASE e = "Exam_A_CT" -> 1 [] e = "Exam_B_MRI" -> 2 [] OTHER -> 3

\* EXAMS_INFO: the duration of a slot of each exam, in minutes
Duration(e) ==
    CASE e = "Exam_A_CT" -> 30 [] e = "Exam_B_MRI" -> 60 [] OTHER -> 45

\* a Friday and the Monday after it (the generator skips weekends)
SlotDates == {<<2025, 11, 28>>, <<2025, 12, 1>>}

\* two of the generator's start times, range(540, 1020, 30)
StartMins == {540, 600}

Grid == ExamNames \X SlotDates \X StartMins

\* the generator numbers the slots as it walks date, start time, exam
SlotId(p) ==
    1 + ((IF p[2] = <<2025, 11, 28>> THEN 0 ELSE 1) * 2
           + (IF p[3] = 540 THEN 0 ELSE 1)) * 3 + (ExamRank(p[1]) - 1)

\* one record of slots_data.json
MakeSlot(p, avail) ==
    [id |-> SlotId(p), exam |-> p[1], date |-> p[2], start_min |-> p[3],
     end_min |-> p[3] + Duration(p[1]), is_available |-> avail]

\* all_slots.sort(key=lambda x: (x['exam'], x['date'], x['start_min']))
CatalogKey(s) == <<ExamRank(s.exam)>> \o s.date \o <<s.start_min>>

\* the slots the generator marked booked: none, or the first one it made
BookedSets(P) ==
    {{}} \cup {{p \in P : \A q \in P : SlotId(p) <= SlotId(q)}}

\* the slots of the set S as the generator writes them: sorted by CatalogKey
SortedCatalog(S) ==
    LET keys == SortedSeq({CatalogKey(s) : s \in S})
    IN  [i \in DOMAIN keys |-> CHOOSE s \in S : CatalogKey(s) = keys[i]]

\* the catalogs: at most MaxSlots slots of the grid
Catalogs ==
    UNION {{SortedCatalog({MakeSlot(p, p \notin booked) : p \in P}) :
              booked \in BookedSets(P)} :
           P \in {Q \in SUBSET Grid : Cardinality(Q) <= MaxSlots}}

\* the patient's exam list: distinct exam names in any order
RequiredLists ==
    UNION {DistinctSeqs(ExamNames, n) : n \in 1..Cardinality(ExamNames)}

NextAppointments == {<<2025, 12, 9>>}

\* result_waiting_days: the deadline falls on the Monday or on the Friday
WaitingDays == {8, 11}

MinGaps == {30}

CannotRules == {<<e[1], e[2]>> : e \in {x \in ExamNames \X ExamNames : ExamRank(x[1]) < ExamRank(x[2])}}

MustGroups ==
    CannotRules \cup
    {<<"Exam_A_CT", "Exam_B_MRI", "Exam_C_Endoscopy">>,
     <<"Exam_C_Endoscopy", "Exam_A_CT", "Exam_B_MRI">>}

GapRules ==
    {[pre |-> e[1], post |-> e[2], min_gap_minutes |-> g] :
        e \in {x \in ExamNames \X ExamNames : x[1] # x[2]}, g \in MinGaps}

\* the 'constraints' object of constraints.json: no rule, one rule, or one
\* rule of each kind
ConstraintSets ==
    {[cannot_same_day |-> <<>>, must_same_day |-> <<>>, sequence_and_gap |-> <<>>],
     [cannot_same_day |-> <<<<"Exam_A_CT", "Exam_C_Endoscopy">>>>,
      must_same_day |-> <<<<"Exam_A_CT", "Exam_B_MRI">>>>,
      sequence_and_gap |-> <<[pre |-> "Exam_A_CT", post |-> "Exam_B_MRI",
                              min_gap_minutes |-> 30]>>]}
    \cup {[cannot_same_day |-> <<r>>, must_same_day |-> <<>>, sequence_and_gap |-> <<>>] :
            r \in CannotRules}
    \cup {[cannot_same_day |-> <<>>, must_same_day |-> <<g>>, sequence_and_gap |-> <<>>] :
            g \in MustGroups}
    \cup {[cannot_same_day |-> <<>>, must_same_day |-> <<>>, sequence_and_gap |-> <<r>>] :
            r \in GapRules}

RuleSets ==
    {[result_waiting_days |-> n, constraints |-> c] :
        n \in WaitingDays, c \in ConstraintSets}

NoModel == [choices |-> {}, exactly_one |-> {}, clauses |-> {}, all_dates |-> <<>>,
            vars_on_day |-> <<>>]

NoOutput == [msg |-> "NONE", exam |-> "", days |-> 0]

Init ==
    /\ slots_data \in Catalogs
    /\ rules_data \in RuleSets
    /\ required_exams \in RequiredLists
    /\ next_appointment_date \in NextAppointments
    /\ pc = "start"
    /\ all_slots = <<>>
    /\ exam_slots_map = <<>>
    /\ model = NoModel
    /\ status = "NONE"
    /\ values = <<>>
    /\ output = NoOutput
    /\ result_schedule = <<>>

----------------------------------------------------------------------------
(* 1) Loading and filtering the catalog                                    *)

\* e in required_exams, for the list required_exams
InRequired(e) == \E i \in DOMAIN required_exams : required_exams[i] = e

\* deadline_date = next_appointment_date - timedelta(days=N_DAYS)
deadline_date ==
    strptime_date(next_appointment_date) - rules_data.result_waiting_days

\* IsValidSlot with the deadline day itself shut out ('<' for '<=')
IsValidSlotStrict(slot) ==
    strptime_date(slot.date) < deadline_date /\ InRequired(slot.exam)

\* the test that keeps a slot of the catalog
IsValidSlot(slot) ==
    strptime_date(slot.date) <= deadline_date /\ InRequired(slot.exam)

\* valid_slots: the slots of the catalog that pass, in the catalog's order
valid_slots == SelectSeq(slots_data, IsValidSlot)

FilterEmpty ==
    /\ pc = "start"
    /\ valid_slots = <<>>
    /\ output' = [msg |-> "NO_VALID_SLOTS", exam |-> "", days |-> 0]
    /\ pc' = "done"
    /\ UNCHANGED <<inputs, all_slots, exam_slots_map, model, status, values,
                   result_schedule>>

FilterSome ==
    /\ pc = "start"
    /\ valid_slots # <<>>
    /\ all_slots' = valid_slots
    /\ pc' = "filtered"
    /\ UNCHANGED <<inputs, exam_slots_map, model, status, values, output,
                   result_schedule>>

----------------------------------------------------------------------------
(* 2) Building the CP-SAT model                                            *)

\* a choice variable is named by its key (exam, slot id)
Key(slot) == <<slot.exam, slot.id>>

\* exam_slots_map: for each required exam the list of its slots of all_slots
ExamSlotsMap ==
    [e \in Range(required_exams) |->
        SelectSeq(all_slots, LAMBDA slot : slot.exam = e)]

\* choices: one BoolVar for each slot of all_slots whose exam is required
Choices == {Key(slot) : slot \in {s \in Range(all_slots) : InRequired(s.exam)}}

\* EmptyExams looking at the first required exam only
EmptyExamsFirstOnly ==
    {i \in {1} : ExamSlotsMap[required_exams[i]] = <<>>}

\* the required exams that have no slot, by position in required_exams
EmptyExams ==
    {i \in DOMAIN required_exams : ExamSlotsMap[required_exams[i]] = <<>>}

\* ExactlyOne with the last required exam left out
ExactlyOneButLast ==
    {[i \in DOMAIN ExamSlotsMap[e] |-> Key(ExamSlotsMap[e][i])] :
        e \in Range(SubSeq(required_exams, 1, Len(required_exams) - 1))}

\* constraint (1): for each required exam the list vars_for_this_exam, whose
\* sum must be 1
ExactlyOne ==
    {[i \in DOMAIN ExamSlotsMap[e] |-> Key(ExamSlotsMap[e][i])] :
        e \in Range(required_exams)}

\* model.AddBoolOr([var1.Not(), var2.Not()]) is the clause <<var1, var2>>

\* CannotSameDayClauses with the date test of must_same_day ('!=' for '==')
CannotSameDayClausesOtherDay ==
    LET rules == rules_data.constraints.cannot_same_day
    IN  UNION {
          IF InRequired(rules[r][1]) /\ InRequired(rules[r][2])
          THEN {<<Key(s1), Key(s2)>> :
                  <<s1, s2>> \in {c \in Range(ExamSlotsMap[rules[r][1]])
                                         \X Range(ExamSlotsMap[rules[r][2]]) :
                                    c[1].date # c[2].date}}
          ELSE {} : r \in DOMAIN rules}

\* (a) cannot_same_day
CannotSameDayClauses ==
    LET rules == rules_data.constraints.cannot_same_day
    IN  UNION {
          IF InRequired(rules[r][1]) /\ InRequired(rules[r][2])
          THEN {<<Key(s1), Key(s2)>> :
                  <<s1, s2>> \in {c \in Range(ExamSlotsMap[rules[r][1]])
                                         \X Range(ExamSlotsMap[rules[r][2]]) :
                                    c[1].date = c[2].date}}
          ELSE {} : r \in DOMAIN rules}

\* valid_group_exams = [e for e in group if e in required_exams]
ValidGroupExams(group) == SelectSeq(group, InRequired)

\* OtherMembers stopping after the first of them
OtherMembersFirstOnly(valid_group) == SubSeq(valid_group, 2, 2)

\* the members a group's reference exam is paired with: valid_group_exams[1:]
OtherMembers(valid_group) == Tail(valid_group)

\* (b) must_same_day
MustSameDayClauses ==
    LET groups == rules_data.constraints.must_same_day
    IN  UNION {
          LET valid_group == ValidGroupExams(groups[g])
          IN  IF Len(valid_group) >= 2
              THEN UNION {
                     {<<Key(s1), Key(s2)>> :
                        <<s1, s2>> \in {c \in Range(ExamSlotsMap[valid_group[1]])
                                               \X Range(ExamSlotsMap[ex2]) :
                                          c[1].date # c[2].date}} :
                     ex2 \in Range(OtherMembers(valid_group))}
              ELSE {} : g \in DOMAIN groups}

\* GapViolated without the gap
GapViolatedNoGap(pre_s, post_s, gap) == pre_s.end_min > post_s.start_min

\* the test of a same-day pair against the gap
GapViolated(pre_s, post_s, gap) == pre_s.end_min + gap > post_s.start_min

\* the test of a pair against the order of the dates
OrderViolated(pre_s, post_s) ==
    strptime_date(pre_s.date) > strptime_date(post_s.date)

\* (c) sequence_and_gap
SequenceAndGapClauses ==
    LET rules == rules_data.constraints.sequence_and_gap
    IN  UNION {
          IF InRequired(rules[r].pre) /\ InRequired(rules[r].post)
          THEN {<<Key(pre_s), Key(post_s)>> :
                  <<pre_s, post_s>> \in
                     {c \in Range(ExamSlotsMap[rules[r].pre])
                            \X Range(ExamSlotsMap[rules[r].post]) :
                        \/ /\ c[1].date = c[2].date
                           /\ GapViolated(c[1], c[2], rules[r].min_gap_minutes)
                        \/ OrderViolated(c[1], c[2])}}
          ELSE {} : r \in DOMAIN rules}

\* all_dates = sorted(list(set(s['date'] for s in all_slots)))
AllDates == SortedSeq({s.date : s \in Range(all_slots)})

\* next(item for item in all_slots if item['id'] == s_id)
SlotById(s_id) ==
    all_slots[Min({i \in DOMAIN all_slots : all_slots[i].id = s_id})]

\* vars_on_this_day: the choice variables whose slot is on date_str
VarsOnThisDay(date_str) ==
    {k \in Choices : SlotById(k[2]).date = date_str}

BuildFail ==
    /\ pc = "filtered"
    /\ EmptyExams # {}
    /\ output' = [msg |-> "NO_SLOT_FOR_EXAM",
                  exam |-> required_exams[Min(EmptyExams)], days |-> 0]
    /\ pc' = "done"
    /\ UNCHANGED <<inputs, all_slots, exam_slots_map, model, status, values,
                   result_schedule>>

Build ==
    /\ pc = "filtered"
    /\ EmptyExams = {}
    /\ exam_slots_map' = ExamSlotsMap
    /\ model' = [choices |-> Choices,
                 exactly_one |-> ExactlyOne,
                 clauses |-> CannotSameDayClauses \cup MustSameDayClauses
                               \cup SequenceAndGapClauses,
                 all_dates |-> AllDates,
                 vars_on_day |-> [d \in Range(AllDates) |-> VarsOnThisDay(d)]]
    /\ pc' = "built"
    /\ UNCHANGED <<inputs, all_slots, status, values, output, result_schedule>>

----------------------------------------------------------------------------
(* 3) The solver.  CpSolver.Solve is the OR-Tools library: it answers      *)
(* OPTIMAL with a solution of least objective, FEASIBLE with any solution, *)
(* INFEASIBLE when there is none, or UNKNOWN.                              *)

\* the value of sum(vars) for a list of variables under the assignment v
SumOf(var_list, v) == Cardinality({i \in DOMAIN var_list : v[var_list[i]]})

\* v satisfies every constraint of the model
Satisfies(v) ==
    /\ \A c \in model.exactly_one : SumOf(c, v) = 1
    /\ \A c \in model.clauses : ~v[c[1]] \/ ~v[c[2]]

Solutions == {v \in [model.choices -> BOOLEAN] : Satisfies(v)}

\* IsDayUsed as the minimum of the day's variables
IsDayUsedMin(v, date_str) == \A k \in model.vars_on_day[date_str] : v[k]

\* is_day_used, by AddMaxEquality(is_day_used, vars_on_this_day)
IsDayUsed(v, date_str) == \E k \in model.vars_on_day[date_str] : v[k]

\* sum(day_used_vars)
ObjectiveOf(v) ==
    Cardinality({i \in DOMAIN model.all_dates : IsDayUsed(v, model.all_dates[i])})

OptimalSolutions ==
    {v \in Solutions : \A w \in Solutions : ObjectiveOf(v) <= ObjectiveOf(w)}

SolveOptimal ==
    /\ pc = "built"
    /\ \E v \in OptimalSolutions : values' = v
    /\ status' = "OPTIMAL"
    /\ pc' = "solved"
    /\ UNCHANGED <<inputs, all_slots, exam_slots_map, model, output,
                   result_schedule>>

SolveFeasible ==
    /\ pc = "built"
    /\ \E v \in Solutions : values' = v
    /\ status' = "FEASIBLE"
    /\ pc' = "solved"
    /\ UNCHANGED <<inputs, all_slots, exam_slots_map, model, output,
                   result_schedule>>

SolveInfeasible ==
    /\ pc = "built"
    /\ Solutions = {}
    /\ status' = "INFEASIBLE"
    /\ pc' = "solved"
    /\ UNCHANGED <<inputs, all_slots, exam_slots_map, model, values, output,
                   result_schedule>>

SolveUnknown ==
    /\ pc = "built"
    /\ status' = "UNKNOWN"
    /\ pc' = "solved"
    /\ UNCHANGED <<inputs, all_slots, exam_slots_map, model, values, output,
                   result_schedule>>

----------------------------------------------------------------------------
(* 4) Reading the result                                                   *)

\* the statuses the run reports as success
IsSuccess(st) == st = "OPTIMAL" \/ st = "FEASIBLE"

\* the message printed for a status that is not a success
FailureMessage(st) == "INFEASIBLE"

\* solver.Value(choices[(exam, slot_id)]) == 1, for a slot with a variable
IsChosen(slot) == Key(slot) \in model.choices /\ values[Key(slot)]

\* the entry appended for a chosen slot
Entry(slot) ==
    [Exam |-> slot.exam, Date |-> slot.date,
     Start |-> minutes_to_time_str(slot.start_min),
     End |-> minutes_to_time_str(slot.end_min)]

\* key=lambda x: (x['Date'], x['Start'])
ScheduleKey(item) == item.Date \o item.Start

\* list.sort(key=...): stable, increasing
RECURSIVE SortSchedule(_)
SortSchedule(list) ==
    IF list = <<>> THEN <<>>
    ELSE LET n      == Len(list)
             sorted == SortSchedule(SubSeq(list, 1, n - 1))
             x      == list[n]
             k      == Cardinality({i \in DOMAIN sorted :
                          ~LexLess(ScheduleKey(x), ScheduleKey(sorted[i]))})
         IN  SubSeq(sorted, 1, k) \o <<x>> \o SubSeq(sorted, k + 1, Len(sorted))

\* result_schedule, as built from all_slots and then sorted
ResultSchedule ==
    LET chosen == SelectSeq(all_slots, IsChosen)
    IN  SortSchedule([i \in DOMAIN chosen |-> Entry(chosen[i])])

ReportSuccess ==
    /\ pc = "solved"
    /\ IsSuccess(status)
    /\ output' = [msg |-> "SUCCESS", exam |-> "", days |-> ObjectiveOf(values)]
    /\ result_schedule' = ResultSchedule
    /\ pc' = "done"
    /\ UNCHANGED <<inputs, all_slots, exam_slots_map, model, status, values>>

ReportFailure ==
    /\ pc = "solved"
    /\ ~IsSuccess(status)
    /\ output' = [msg |-> FailureMessage(status), exam |-> "", days |-> 0]
    /\ pc' = "done"
    /\ UNCHANGED <<inputs, all_slots, exam_slots_map, model, status, values,
                   result_schedule>>

----------------------------------------------------------------------------

Next ==
    \/ FilterEmpty
    \/ FilterSome
    \/ BuildFail
    \/ Build
    \/ SolveOptimal
    \/ SolveFeasible
    \/ SolveInfeasible
    \/ SolveUnknown
    \/ ReportSuccess
    \/ ReportFailure

Spec == Init /\ [][Next]_vars

----------------------------------------------------------------------------
(* What the claims speak of                                                *)

\* the run reported success and printed a schedule
Produced == pc = "done" /\ output.msg = "SUCCESS"

\* the entries of the printed schedule for the exam e
EntriesOf(e) == {i \in DOMAIN result_schedule : result_schedule[i].Exam = e}

\* the day of a date of November or December 2025, counted from 1 November
DayIndex(d) == IF d[2] = 11 THEN d[3] ELSE 30 + d[3]

\* the deadline, counted the same way
DeadlineIndex == DayIndex(next_appointment_date) - rules_data.result_waiting_days

\* the slots of the catalog for a required exam and within the deadline
EligibleSlots ==
    {s \in Range(slots_data) :
        s.exam \in Range(required_exams) /\ DayIndex(s.date) <= DeadlineIndex}

\* the chosen variables of the exam e
ChosenOf(e) == {k \in model.choices : k[1] = e /\ values[k]}

----------------------------------------------------------------------------
\* C1: whenever the run reports success, the schedule holds exactly one
\* entry for every required exam and none for any other exam, and exactly
\* one choice variable of every required exam is true.
C1_ExactlyOneEntryPerExam ==
    Produced =>
        \A e \in ExamNames :
            IF e \in Range(required_exams)
            THEN Cardinality(EntriesOf(e)) = 1 /\ Cardinality(ChosenOf(e)) = 1
            ELSE EntriesOf(e) = {}

\* a schedule for two or more exams, one of which had two slots to choose from
C1_Witness ==
    /\ Produced
    /\ Len(required_exams) >= 2
    /\ \E e \in Range(required_exams) : Len(exam_slots_map[e]) >= 2

----------------------------------------------------------------------------
\* C2: every entry of a produced schedule comes from a slot of the catalog
\* that is marked available.
C2_OnlyAvailableSlots ==
    Produced =>
        \A i \in DOMAIN result_schedule :
            \E s \in Range(slots_data) :
                /\ s.is_available
                /\ s.exam = result_schedule[i].Exam
                /\ s.date = result_schedule[i].Date
                /\ minutes_to_time_str(s.start_min) = result_schedule[i].Start

----------------------------------------------------------------------------
\* C3: the filter keeps exactly the catalog slots whose exam is required and
\* whose date is on or before next_appointment_date - result_waiting_days
\* (it reports no valid slot exactly when there is none), and every entry of
\* a produced schedule is dated on or before that deadline.
C3_FilterKeepsEligible ==
    /\ pc = "start" \/ output.msg = "NO_VALID_SLOTS" \/
         /\ Range(all_slots) = EligibleSlots
         /\ Len(all_slots) = Cardinality(EligibleSlots)
    /\ output.msg = "NO_VALID_SLOTS" <=> (pc # "start" /\ EligibleSlots = {})
    /\ Produced =>
         \A i \in DOMAIN result_schedule :
            DayIndex(result_schedule[i].Date) <= DeadlineIndex

\* a schedule with an entry dated on the deadline itself, from a catalog that
\* also holds a slot of a required exam after the deadline
C3_Witness ==
    /\ Produced
    /\ \E i \in DOMAIN result_schedule :
          DayIndex(result_schedule[i].Date) = DeadlineIndex
    /\ \E s \in Range(slots_data) :
          s.exam \in Range(required_exams) /\ DayIndex(s.date) > DeadlineIndex

----------------------------------------------------------------------------
\* the cannot_same_day pairs whose two exams are both required
ActiveCannotPairs ==
    {r \in Range(rules_data.constraints.cannot_same_day) :
        r[1] \in Range(required_exams) /\ r[2] \in Range(required_exams)}

\* C4: no produced schedule places the two exams of a cannot_same_day pair,
\* both required, on one date.
C4_CannotSameDay ==
    Produced =>
        \A r \in ActiveCannotPairs :
            \A i \in EntriesOf(r[1]), j \in EntriesOf(r[2]) :
                result_schedule[i].Date # result_schedule[j].Date

\* a schedule under a cannot_same_day pair whose exams had slots on one date
C4_Witness ==
    /\ Produced
    /\ \E r \in ActiveCannotPairs :
          \E s1 \in Range(exam_slots_map[r[1]]), s2 \in Range(exam_slots_map[r[2]]) :
              s1.date = s2.date

----------------------------------------------------------------------------
\* the required members of the must_same_day groups with two or more of them
ActiveGroups ==
    {m \in {Range(g) \cap Range(required_exams) :
              g \in Range(rules_data.constraints.must_same_day)} :
        Cardinality(m) >= 2}

\* C5: in a produced schedule the entries for the required members of a
\* must_same_day group (two or more of them) are all on one date.
C5_MustSameDay ==
    Produced =>
        \A m \in ActiveGroups :
            \A i, j \in DOMAIN result_schedule :
                result_schedule[i].Exam \in m /\ result_schedule[j].Exam \in m
                    => result_schedule[i].Date = result_schedule[j].Date

\* a schedule under a group of three required exams
C5_Witness ==
    Produced /\ \E m \in ActiveGroups : Cardinality(m) >= 3

----------------------------------------------------------------------------
\* the sequence_and_gap rules whose two exams are both required
ActiveGapRules ==
    {r \in Range(rules_data.constraints.sequence_and_gap) :
        r.pre \in Range(required_exams) /\ r.post \in Range(required_exams)}

\* the minutes of an 'HH:MM' string
MinutesOf(hhmm) == hhmm[1] * 60 + hhmm[2]

\* C6: in a produced schedule, for a sequence_and_gap rule with both exams
\* required, pre is never on a later date than post, and on one date
\* pre.end + gap <= post.start; the rule adds no clause for a pair of slots
\* with pre on an earlier date than post.
C6_SequenceAndGap ==
    /\ Produced =>
         \A r \in ActiveGapRules :
            \A i \in EntriesOf(r.pre), j \in EntriesOf(r.post) :
                LET pre == result_schedule[i]
                    post == result_schedule[j]
                IN  /\ DayIndex(pre.Date) <= DayIndex(post.Date)
                    /\ pre.Date = post.Date =>
                          MinutesOf(pre.End) + r.min_gap_minutes <= MinutesOf(post.Start)
    /\ pc \in {"built", "solved"} \/ Produced =>
         \A r \in ActiveGapRules :
            \A p, q \in Range(all_slots) :
                /\ p.exam = r.pre /\ q.exam = r.post
                /\ DayIndex(p.date) < DayIndex(q.date)
                => <<Key(p), Key(q)>> \notin
                      model.clauses \ (CannotSameDayClauses \cup MustSameDayClauses)

\* a schedule with pre and post on one date, chosen among candidates of
\* which a same-day pair was too close
C6_Witness ==
    /\ Produced
    /\ \E r \in ActiveGapRules :
          /\ \E i \in EntriesOf(r.pre), j \in EntriesOf(r.post) :
                result_schedule[i].Date = result_schedule[j].Date
          /\ \E p \in Range(exam_slots_map[r.pre]), q \in Range(exam_slots_map[r.post]) :
                p.date = q.date /\ p.end_min + r.min_gap_minutes > q.start_min

\* a schedule with pre on the earlier date and closer in time of day to post
\* than the gap
C6_WitnessEarlierDate ==
    /\ Produced
    /\ \E r \in ActiveGapRules :
          \E i \in EntriesOf(r.pre), j \in EntriesOf(r.post) :
              /\ DayIndex(result_schedule[i].Date) < DayIndex(result_schedule[j].Date)
              /\ MinutesOf(result_schedule[i].End) + r.min_gap_minutes
                    > MinutesOf(result_schedule[j].Start)

----------------------------------------------------------------------------
\* the dates of the entries of the printed schedule
ScheduleDates == {result_schedule[i].Date : i \in DOMAIN result_schedule}

\* C7: the objective a produced schedule reports is the number of distinct
\* dates of its entries, and a day's indicator is true exactly when a chosen
\* slot is on that date.
C7_ObjectiveCountsDates ==
    Produced =>
        /\ output.days = Cardinality(ScheduleDates)
        /\ \A d \in Range(model.all_dates) :
              IsDayUsed(values, d) <=> d \in ScheduleDates

\* a schedule of three entries on two dates
C7_Witness ==
    Produced /\ Len(result_schedule) = 3 /\ Cardinality(ScheduleDates) = 2

----------------------------------------------------------------------------
\* the ways to give every required exam one of its candidate slots
Itineraries ==
    {f \in [Range(required_exams) -> Range(all_slots)] :
        \A e \in Range(required_exams) : f[e].exam = e}

\* an itinerary obeys the three kinds of rule
ObeysRules(f) ==
    /\ \A r \in ActiveCannotPairs : f[r[1]].date # f[r[2]].date
    /\ \A m \in ActiveGroups : \A a, b \in m : f[a].date = f[b].date
    /\ \A r \in ActiveGapRules :
          /\ DayIndex(f[r.pre].date) <= DayIndex(f[r.post].date)
          /\ f[r.pre].date = f[r.post].date =>
                f[r.pre].end_min + r.min_gap_minutes <= f[r.post].start_min

\* C8: no itinerary that obeys the rules uses fewer dates than the objective
\* a produced schedule reports, whether the status is OPTIMAL or FEASIBLE.
C8_ReportedObjectiveIsMinimum ==
    Produced =>
        \A f \in Itineraries :
            ObeysRules(f) =>
                Cardinality({f[e].date : e \in Range(required_exams)}) >= output.days

\* C8 for the status OPTIMAL alone
C8_OptimalIsMinimum ==
    Produced /\ status = "OPTIMAL" =>
        \A f \in Itineraries :
            ObeysRules(f) =>
                Cardinality({f[e].date : e \in Range(required_exams)}) >= output.days

----------------------------------------------------------------------------
\* C9: the four failures are told apart: no candidate slot at all, no slot
\* for one exam, a model the solver proved infeasible, and a solver that
\* could not decide each end the run with a message of their own.
C9_FailuresDistinguished ==
    pc = "done" =>
        /\ output.msg = "NO_VALID_SLOTS" <=> EligibleSlots = {}
        /\ output.msg = "INFEASIBLE" <=> status = "INFEASIBLE"
        /\ status = "UNKNOWN" =>
              output.msg \notin {"SUCCESS", "NO_VALID_SLOTS", "NO_SLOT_FOR_EXAM", "INFEASIBLE"}

----------------------------------------------------------------------------
\* the positions in required_exams of the exams with no eligible slot
Uncovered ==
    {i \in DOMAIN required_exams :
        ~\E s \in EligibleSlots : s.exam = required_exams[i]}

\* C10 as stated: if a required exam has no candidate slot, the run ends in
\* the failure naming that exam, whichever exam it is, the solver is never
\* invoked and no schedule is produced.
C10_AsClaimed ==
    \A i \in Uncovered :
        /\ status = "NONE" /\ result_schedule = <<>>
        /\ pc = "done" =>
              output.msg = "NO_SLOT_FOR_EXAM" /\ output.exam = required_exams[i]

\* C10 as amended: if a required exam has no candidate slot, the solver is
\* never invoked and no schedule is produced; the run ends with the failure
\* for no valid slot when no required exam has a candidate, and otherwise
\* with the failure naming the first exam of required_exams without one.
C10_UncoveredExamAborts ==
    Uncovered # {} =>
        /\ status = "NONE" /\ result_schedule = <<>>
        /\ pc \in {"start", "filtered", "done"}
        /\ pc = "done" =>
              IF Cardinality(Uncovered) = Len(required_exams)
              THEN output.msg = "NO_VALID_SLOTS"
              ELSE /\ output.msg = "NO_SLOT_FOR_EXAM"
                   /\ output.exam = required_exams[Min(Uncovered)]

\* the run ended naming an exam that is not the first of the list, while
\* another exam had two candidate slots
C10_Witness ==
    /\ pc = "done"
    /\ output.msg = "NO_SLOT_FOR_EXAM"
    /\ output.exam # required_exams[1]
    /\ \E e \in Range(required_exams) :
          Cardinality({s \in EligibleSlots : s.exam = e}) >= 2

====
